---- MODULE Spec2Model ----
(***************************************************************************)
(* Model of the stress-benchmark orchestrator                              *)
(* (crates/sui-benchmark/src/bin/stress.rs, fn main) and of the p2p        *)
(* configuration getters (crates/sui-config/src/p2p.rs).                   *)
(***************************************************************************)
EXTENDS Integers, Sequences, FiniteSets, TLC

\* ---------------------------------------------------------------- bounds
MaxStat == 2          \* BenchmarkStats are abstracted to 1..MaxStat
MaxSecs == 2          \* bounded run durations are 1..MaxSecs seconds

\* ------------------------------------------------------- values and types
None == "None"
NoFile == <<"nofile", 0>>
Garbage == <<"garbage", 0>>
NoStats == 0
NoGen == -1
Unbounded == [kind |-> "unbounded", secs |-> 0]
Bounded(n) == [kind |-> "bounded", secs |-> n]
Paths == {"prev.json", "curr.json"}
StatsVals == 1..MaxStat
DefaultStressStats == 0
RunIntervals == {Bounded(n) : n \in 1..MaxSecs} \cup {Unbounded}

\* tokio::sync::Barrier::new(2)
BarrierN == 2

\* RunInterval::is_unbounded: true only for the unbounded sentinel
is_unbounded(interval) == interval.kind = "unbounded"

\* BenchmarkStats::to_table
to_table(s) == <<"table", s>>

\* serde_json::to_string(&BenchmarkStats)
to_string(s) == <<"json", s>>

\* serde_json::from_str::<BenchmarkStats>
from_str(data) ==
    IF data \in {to_string(s) : s \in StatsVals}
    THEN [ok |-> TRUE, val |-> data[2]]
    ELSE [ok |-> FALSE, val |-> NoStats]

\* std::fs::read_to_string
read_to_string(files, path) ==
    IF files[path] = NoFile
    THEN [ok |-> FALSE, val |-> NoFile]
    ELSE [ok |-> TRUE, val |-> files[path]]

\* BenchmarkCmp { new, old }.to_table()
cmp_to_table(new, old) == <<"cmp", new, old, new - old>>

Contents == {NoFile, Garbage} \cup {to_string(s) : s \in StatsVals}

OptsSet ==
    [local : BOOLEAN,
     disjoint_mode : BOOLEAN,
     run_duration : RunIntervals,
     stress_stat_collection : BOOLEAN,
     compare_with : {""} \cup Paths,
     benchmark_stats_path : {""} \cup Paths]

VARIABLES
    opts,            \* parsed command line (Opts)
    fs,              \* file system: path -> content
    pc,              \* position of main
    outcome,         \* how main ended
    barrier,         \* the 2-party barrier: arrived count and generation
    arrivedSet,      \* who has ever called barrier.wait()
    mainArrivals,    \* number of barrier.wait() calls of main
    mainGen,         \* barrier generation main arrived in
    envPc,           \* position of the participant holding cloned_barrier
    envGen,          \* barrier generation that participant arrived in
    resources,       \* primary gas, pay coin and validator proxy are ready
    setupResult,     \* result of env.setup
    env,             \* Env::Local / Env::Remote
    clientPc,        \* position of the client thread
    clientResult,    \* what handle.join() will yield
    workload_configuration,
    runCalls,        \* number of BenchDriver::run invocations
    runArgs,         \* show_progress and interval handed to run
    returned,        \* the stats the driver returned
    stderr,          \* lines printed with eprintln!
    benchmark_stats, stress_stats, prev_stats,   \* locals of main
    compareRead,     \* read_to_string(compare_with) has been called
    writeCalls,      \* number of std::fs::write calls
    cfg,             \* p2p: a StateSyncConfig and a DiscoveryConfig
    gotStateSync,    \* p2p: what the StateSyncConfig getters returned
    gotDiscovery     \* p2p: what the DiscoveryConfig getters returned

mainVars == <<opts, fs, pc, outcome, barrier, arrivedSet, mainArrivals, mainGen,
              envPc, envGen, resources, setupResult, env, clientPc, clientResult,
              workload_configuration, runCalls, runArgs, returned, stderr,
              benchmark_stats, stress_stats, prev_stats, compareRead, writeCalls>>
p2pVars == <<cfg, gotStateSync, gotDiscovery>>
vars == <<mainVars, p2pVars>>

\* state of main right after line 67 (barrier created and cloned)
MainStart ==
    /\ pc = "start"
    /\ outcome = None
    /\ barrier = [arrived |-> 0, generation |-> 0]
    /\ arrivedSet = {}
    /\ mainArrivals = 0
    /\ mainGen = NoGen
    /\ envPc = "none"
    /\ envGen = NoGen
    /\ resources = FALSE
    /\ setupResult = None
    /\ env = None
    /\ clientPc = "none"
    /\ clientResult = [kind |-> "none", from |-> "none"]
    /\ workload_configuration = None
    /\ runCalls = 0
    /\ runArgs = [show_progress |-> FALSE, interval |-> Unbounded]
    /\ returned = [benchmark |-> NoStats, stress |-> DefaultStressStats]
    /\ stderr = <<>>
    /\ benchmark_stats = NoStats
    /\ stress_stats = DefaultStressStats
    /\ prev_stats = NoStats
    /\ compareRead = FALSE
    /\ writeCalls = 0

MainInit ==
    /\ opts \in OptsSet
    /\ fs \in [Paths -> Contents]
    /\ MainStart

\* ------------------------------------------------------------ the barrier
\* tokio Barrier::wait, arrival part: the BarrierN-th arrival opens a new
\* generation and resets the count, any earlier one is counted and blocks
BarrierArrive(b) ==
    IF b.arrived + 1 >= BarrierN
    THEN [arrived |-> 0, generation |-> b.generation + 1]
    ELSE [arrived |-> b.arrived + 1, generation |-> b.generation]

\* a waiter that arrived in generation g may proceed
BarrierReleased(b, g) == b.generation # g

\* --------------------------------------------------- env.setup (lines 68-69)
\* line 68 and the call on line 69: env.setup starts with the cloned barrier
MainCallSetup ==
    /\ pc = "start"
    /\ pc' = "setup"
    /\ env' = IF opts.local THEN "Local" ELSE "Remote"
    /\ envPc' = "preparing"
    /\ UNCHANGED <<opts, fs, outcome, barrier, arrivedSet, mainArrivals, mainGen,
                   envGen, resources, setupResult, clientPc, clientResult,
                   workload_configuration, runCalls, runArgs, returned, stderr,
                   benchmark_stats, stress_stats, prev_stats, compareRead,
                   writeCalls>>

\* Env::setup: cluster bootstrap / remote connection succeeded, the funding
\* resources and the validator proxy are ready
EnvResourcesReady ==
    /\ envPc = "preparing"
    /\ setupResult = None
    /\ resources' = TRUE
    /\ envPc' = "ready"
    /\ UNCHANGED <<opts, fs, pc, outcome, barrier, arrivedSet, mainArrivals,
                   mainGen, envGen, setupResult, env, clientPc, clientResult,
                   workload_configuration, runCalls, runArgs, returned, stderr,
                   benchmark_stats, stress_stats, prev_stats, compareRead,
                   writeCalls>>

\* Env::setup fails with a SetupError
EnvSetupErr ==
    /\ envPc = "preparing"
    /\ setupResult = None
    /\ setupResult' = "err"
    /\ envPc' = "failed"
    /\ UNCHANGED <<opts, fs, pc, outcome, barrier, arrivedSet, mainArrivals,
                   mainGen, envGen, resources, env, clientPc, clientResult,
                   workload_configuration, runCalls, runArgs, returned, stderr,
                   benchmark_stats, stress_stats, prev_stats, compareRead,
                   writeCalls>>

\* Env::setup returns the BenchmarkSetup once the resources are ready
EnvSetupOk ==
    /\ resources
    /\ setupResult = None
    /\ setupResult' = "ok"
    /\ UNCHANGED <<opts, fs, pc, outcome, barrier, arrivedSet, mainArrivals,
                   mainGen, envPc, envGen, resources, env, clientPc, clientResult,
                   workload_configuration, runCalls, runArgs, returned, stderr,
                   benchmark_stats, stress_stats, prev_stats, compareRead,
                   writeCalls>>

\* the participant holding cloned_barrier calls wait once the resources are ready
EnvBarrierWait ==
    /\ envPc = "ready"
    /\ barrier' = BarrierArrive(barrier)
    /\ arrivedSet' = arrivedSet \cup {"env"}
    /\ envGen' = barrier.generation
    /\ envPc' = "waiting"
    /\ UNCHANGED <<opts, fs, pc, outcome, mainArrivals, mainGen, resources,
                   setupResult, env, clientPc, clientResult,
                   workload_configuration, runCalls, runArgs, returned, stderr,
                   benchmark_stats, stress_stats, prev_stats, compareRead,
                   writeCalls>>

\* ... and proceeds when the barrier releases it
EnvBarrierPass ==
    /\ envPc = "waiting"
    /\ BarrierReleased(barrier, envGen)
    /\ envPc' = "passed"
    /\ UNCHANGED <<opts, fs, pc, outcome, barrier, arrivedSet, mainArrivals,
                   mainGen, envGen, resources, setupResult, env, clientPc,
                   clientResult, workload_configuration, runCalls, runArgs,
                   returned, stderr, benchmark_stats, stress_stats, prev_stats,
                   compareRead, writeCalls>>

\* mutant: the error of env.setup is dropped instead of propagated
MainSetupReturn_IgnoreErr ==
    /\ pc = "setup"
    /\ setupResult # None
    /\ pc' = "barrier"
    /\ UNCHANGED <<opts, fs, outcome, barrier, arrivedSet, mainArrivals, mainGen,
                   envPc, envGen, resources, setupResult, env, clientPc,
                   clientResult, workload_configuration, runCalls, runArgs,
                   returned, stderr, benchmark_stats, stress_stats, prev_stats,
                   compareRead, writeCalls>>

\* line 69: `.await?` -- an error of env.setup is returned from main
MainSetupReturn ==
    /\ pc = "setup"
    /\ setupResult # None
    /\ IF setupResult = "err"
       THEN pc' = "done" /\ outcome' = "err_setup"
       ELSE pc' = "barrier" /\ outcome' = outcome
    /\ UNCHANGED <<opts, fs, barrier, arrivedSet, mainArrivals, mainGen,
                   envPc, envGen, resources, setupResult, env, clientPc,
                   clientResult, workload_configuration, runCalls, runArgs,
                   returned, stderr, benchmark_stats, stress_stats, prev_stats,
                   compareRead, writeCalls>>

\* ------------------------------------------------ barrier.wait() (line 71)
\* mutant: main does not arrive at the barrier at all
MainBarrierWait_Skip ==
    /\ pc = "barrier"
    /\ pc' = "build"
    /\ UNCHANGED <<opts, fs, outcome, barrier, arrivedSet, mainArrivals, mainGen,
                   envPc, envGen, resources, setupResult, env, clientPc,
                   clientResult, workload_configuration, runCalls, runArgs,
                   returned, stderr, benchmark_stats, stress_stats, prev_stats,
                   compareRead, writeCalls>>

\* line 71: main arrives at the barrier
MainBarrierWait ==
    /\ pc = "barrier"
    /\ barrier' = BarrierArrive(barrier)
    /\ arrivedSet' = arrivedSet \cup {"main"}
    /\ mainArrivals' = mainArrivals + 1
    /\ mainGen' = barrier.generation
    /\ pc' = "barrier_wait"
    /\ UNCHANGED <<opts, fs, outcome, envPc, envGen, resources, setupResult, env,
                   clientPc, clientResult, workload_configuration, runCalls,
                   runArgs, returned, stderr, benchmark_stats, stress_stats,
                   prev_stats, compareRead, writeCalls>>

\* mutant: main arrives but goes on without being released
MainBarrierPass_NoAwait ==
    /\ pc = "barrier_wait"
    /\ pc' = "build"
    /\ UNCHANGED <<opts, fs, outcome, barrier, arrivedSet, mainArrivals, mainGen,
                   envPc, envGen, resources, setupResult, env, clientPc,
                   clientResult, workload_configuration, runCalls, runArgs,
                   returned, stderr, benchmark_stats, stress_stats, prev_stats,
                   compareRead, writeCalls>>

\* line 71: `.await` completes when the barrier releases main
MainBarrierPass ==
    /\ pc = "barrier_wait"
    /\ BarrierReleased(barrier, mainGen)
    /\ pc' = "build"
    /\ UNCHANGED <<opts, fs, outcome, barrier, arrivedSet, mainArrivals, mainGen,
                   envPc, envGen, resources, setupResult, env, clientPc,
                   clientResult, workload_configuration, runCalls, runArgs,
                   returned, stderr, benchmark_stats, stress_stats, prev_stats,
                   compareRead, writeCalls>>

\* ------------------------------------- client runtime and thread (73-115)
\* lines 73-78: Builder::build().unwrap() yields the runtime or panics
MainBuildRuntime ==
    /\ pc = "build"
    /\ \/ pc' = "spawn" /\ outcome' = outcome
       \/ pc' = "done" /\ outcome' = "panic_build"
    /\ UNCHANGED <<opts, fs, barrier, arrivedSet, mainArrivals, mainGen,
                   envPc, envGen, resources, setupResult, env, clientPc,
                   clientResult, workload_configuration, runCalls, runArgs,
                   returned, stderr, benchmark_stats, stress_stats, prev_stats,
                   compareRead, writeCalls>>

\* lines 79-82 and 116: the client thread is spawned and main blocks in join
MainSpawn ==
    /\ pc = "spawn"
    /\ pc' = "join"
    /\ clientPc' = "configure"
    /\ UNCHANGED <<opts, fs, outcome, barrier, arrivedSet, mainArrivals, mainGen,
                   envPc, envGen, resources, setupResult, env, clientResult,
                   workload_configuration, runCalls, runArgs, returned, stderr,
                   benchmark_stats, stress_stats, prev_stats, compareRead,
                   writeCalls>>

\* lines 84-88
SelectConfiguration(o) == IF o.disjoint_mode THEN "Disjoint" ELSE "Combined"

\* mutant: a failed configure does not end the client block
ClientConfigure_IgnoreErr ==
    /\ clientPc = "configure"
    /\ workload_configuration' = SelectConfiguration(opts)
    /\ clientPc' = "run"
    /\ \E r \in {"ok", "err"} :
         clientResult' = IF r = "ok" THEN clientResult
                         ELSE [kind |-> "err", from |-> "configure"]
    /\ UNCHANGED <<opts, fs, pc, outcome, barrier, arrivedSet, mainArrivals,
                   mainGen, envPc, envGen, resources, setupResult, env,
                   runCalls, runArgs, returned, stderr,
                   benchmark_stats, stress_stats, prev_stats, compareRead,
                   writeCalls>>

\* lines 84-97: the workloads are configured; `?` ends the block on an error,
\* a panic inside configure ends the thread abnormally
ClientConfigure ==
    /\ clientPc = "configure"
    /\ workload_configuration' = SelectConfiguration(opts)
    /\ \E r \in {"ok", "err", "panic"} :
         CASE r = "ok" -> clientPc' = "run" /\ clientResult' = clientResult
           [] r = "err" ->
                /\ clientPc' = "finished"
                /\ clientResult' = [kind |-> "err", from |-> "configure"]
           [] r = "panic" ->
                /\ clientPc' = "finished"
                /\ clientResult' = [kind |-> "panicked", from |-> "configure"]
    /\ UNCHANGED <<opts, fs, pc, outcome, barrier, arrivedSet, mainArrivals,
                   mainGen, envPc, envGen, resources, setupResult, env,
                   runCalls, runArgs, returned, stderr,
                   benchmark_stats, stress_stats, prev_stats, compareRead,
                   writeCalls>>

\* mutant: progress is always shown
ShowProgress_Always(interval) == TRUE

\* line 103
ShowProgress(interval) == is_unbounded(interval)

\* line 98
RunInterval(o) == o.run_duration

\* lines 98-112: BenchDriver::new(..).run(workloads, proxy, registry,
\* show_progress, interval) is invoked
ClientRun ==
    /\ clientPc = "run"
    /\ LET interval == RunInterval(opts)
           show_progress == ShowProgress(interval)
       IN runArgs' = [show_progress |-> show_progress, interval |-> interval]
    /\ runCalls' = runCalls + 1
    /\ clientPc' = "running"
    /\ UNCHANGED <<opts, fs, pc, outcome, barrier, arrivedSet, mainArrivals,
                   mainGen, envPc, envGen, resources, setupResult, env,
                   clientResult, workload_configuration, returned, stderr,
                   benchmark_stats, stress_stats, prev_stats, compareRead,
                   writeCalls>>

\* line 113: run completes with (BenchmarkStats, StressStats), is aborted by a
\* fatal workload error, or panics; StressStats stay at their default unless
\* stress-stat-collection was requested
ClientRunReturn ==
    /\ clientPc = "running"
    /\ clientPc' = "finished"
    /\ \/ \E bs \in StatsVals, ss \in StatsVals :
            /\ returned' = [benchmark |-> bs,
                            stress |-> IF opts.stress_stat_collection
                                       THEN ss ELSE DefaultStressStats]
            /\ clientResult' = [kind |-> "ok", from |-> "run"]
       \/ /\ clientResult' = [kind |-> "err", from |-> "run"]
          /\ returned' = returned
       \/ /\ clientResult' = [kind |-> "panicked", from |-> "run"]
          /\ returned' = returned
    /\ UNCHANGED <<opts, fs, pc, outcome, barrier, arrivedSet, mainArrivals,
                   mainGen, envPc, envGen, resources, setupResult, env,
                   workload_configuration, runCalls, runArgs, stderr,
                   benchmark_stats, stress_stats, prev_stats, compareRead,
                   writeCalls>>

\* ----------------------------------------------- join and report (116-129)
\* mutant: an inner error is reported like a failed join
JoinOutcome_Merged(joined) ==
    IF joined.kind \in {"panicked", "err"} THEN "err_join" ELSE "continue"

\* lines 116-120: a failed join is returned as an error; joined.unwrap().unwrap()
\* panics on the error the client block returned
JoinOutcome(joined) ==
    CASE joined.kind = "panicked" -> "err_join"
      [] joined.kind = "err" -> "panic_unwrap"
      [] OTHER -> "continue"

\* lines 116-120
MainJoin ==
    /\ pc = "join"
    /\ clientPc = "finished"
    /\ clientPc' = "joined"
    /\ IF JoinOutcome(clientResult) = "continue"
       THEN /\ benchmark_stats' = returned.benchmark
            /\ stress_stats' = returned.stress
            /\ pc' = "report"
            /\ outcome' = outcome
       ELSE /\ pc' = "done"
            /\ outcome' = JoinOutcome(clientResult)
            /\ UNCHANGED <<benchmark_stats, stress_stats>>
    /\ UNCHANGED <<opts, fs, barrier, arrivedSet, mainArrivals, mainGen,
                   envPc, envGen, resources, setupResult, env, clientResult,
                   workload_configuration, runCalls, runArgs, returned, stderr,
                   prev_stats, compareRead, writeCalls>>

\* mutant: the report is not written
ReportLines_Silent(bs, ss, stress) == <<>>

\* lines 121-129: what is written to stderr
ReportLines(bs, ss, stress) ==
    <<<<"header", "Benchmark Report:">>, to_table(bs)>> \o
    (IF stress
     THEN <<<<"header", "Stress Performance Report:">>, <<"stress_table", ss>>>>
     ELSE <<>>)

\* lines 121-129
MainReport ==
    /\ pc = "report"
    /\ stderr' = stderr \o ReportLines(benchmark_stats, stress_stats,
                                       opts.stress_stat_collection)
    /\ pc' = "compare"
    /\ UNCHANGED <<opts, fs, outcome, barrier, arrivedSet, mainArrivals, mainGen,
                   envPc, envGen, resources, setupResult, env, clientPc,
                   clientResult, workload_configuration, runCalls, runArgs,
                   returned, benchmark_stats, stress_stats, prev_stats,
                   compareRead, writeCalls>>

\* -------------------------------------- compare and persist (131-149)
\* lines 132-133: read the previous stats file and parse it
LoadPrevStats(files, path) ==
    LET data == read_to_string(files, path)
    IN  IF ~data.ok THEN [ok |-> FALSE, err |-> "err_compare_read", val |-> NoStats]
        ELSE IF ~from_str(data.val).ok
             THEN [ok |-> FALSE, err |-> "err_compare_parse", val |-> NoStats]
             ELSE [ok |-> TRUE, err |-> None, val |-> from_str(data.val).val]

\* mutant: a compare file that cannot be loaded only skips the comparison
MainCompare_Lenient ==
    /\ pc = "compare"
    /\ pc' = "persist"
    /\ IF opts.compare_with # ""
       THEN LET prev == LoadPrevStats(fs, opts.compare_with)
            IN  /\ compareRead' = TRUE
                /\ IF prev.ok
                   THEN /\ prev_stats' = prev.val
                        /\ stderr' = stderr \o
                             <<<<"header", "Benchmark Comparison Report", opts.compare_with>>,
                               cmp_to_table(benchmark_stats, prev.val)>>
                   ELSE UNCHANGED <<prev_stats, stderr>>
       ELSE UNCHANGED <<compareRead, prev_stats, stderr>>
    /\ UNCHANGED <<opts, fs, outcome, barrier, arrivedSet, mainArrivals, mainGen,
                   envPc, envGen, resources, setupResult, env, clientPc,
                   clientResult, workload_configuration, runCalls, runArgs,
                   returned, benchmark_stats, stress_stats, writeCalls>>

\* lines 131-144: with a non-empty --compare-with the file is read and parsed
\* (`?` returns either error from main) and the comparison table is written
MainCompare ==
    /\ pc = "compare"
    /\ IF opts.compare_with # ""
       THEN LET prev == LoadPrevStats(fs, opts.compare_with)
            IN  /\ compareRead' = TRUE
                /\ IF prev.ok
                   THEN /\ prev_stats' = prev.val
                        /\ stderr' = stderr \o
                             <<<<"header", "Benchmark Comparison Report", opts.compare_with>>,
                               cmp_to_table(benchmark_stats, prev.val)>>
                        /\ pc' = "persist"
                        /\ outcome' = outcome
                   ELSE /\ pc' = "done"
                        /\ outcome' = prev.err
                        /\ UNCHANGED <<prev_stats, stderr>>
       ELSE /\ pc' = "persist"
            /\ UNCHANGED <<compareRead, prev_stats, stderr, outcome>>
    /\ UNCHANGED <<opts, fs, barrier, arrivedSet, mainArrivals, mainGen,
                   envPc, envGen, resources, setupResult, env, clientPc,
                   clientResult, workload_configuration, runCalls, runArgs,
                   returned, benchmark_stats, stress_stats, writeCalls>>

\* mutant: the stress stats are serialized in place of the benchmark stats
Serialized_Stress(bs, ss) == to_string(ss)

\* line 146
Serialized(bs, ss) == to_string(bs)

\* lines 145-149: with a non-empty --benchmark-stats-path the stats are
\* serialized and written; std::fs::write may fail, `?` returns its error
MainPersist ==
    /\ pc = "persist"
    /\ pc' = "done"
    /\ IF opts.benchmark_stats_path # ""
       THEN /\ writeCalls' = writeCalls + 1
            /\ \/ /\ fs' = [fs EXCEPT ![opts.benchmark_stats_path] =
                                  Serialized(benchmark_stats, stress_stats)]
                  /\ outcome' = "ok"
               \/ /\ fs' = fs
                  /\ outcome' = "err_write"
       ELSE /\ outcome' = "ok"
            /\ UNCHANGED <<fs, writeCalls>>
    /\ UNCHANGED <<opts, barrier, arrivedSet, mainArrivals, mainGen,
                   envPc, envGen, resources, setupResult, env, clientPc,
                   clientResult, workload_configuration, runCalls, runArgs,
                   returned, stderr, benchmark_stats, stress_stats, prev_stats,
                   compareRead>>

\* ------------------------------------------------ p2p configuration getters
MaxCfgVal == 1        \* configured values are 0..MaxCfgVal

\* Option<T>
Some(v) == [some |-> TRUE, val |-> v]
NoneOpt == [some |-> FALSE, val |-> 0]
Options == {NoneOpt} \cup {Some(v) : v \in 0..MaxCfgVal}

\* Option::unwrap_or
unwrap_or(o, default) == IF o.some THEN o.val ELSE default

\* Duration::from_millis and Duration::as_millis
from_millis(ms) == [secs |-> ms \div 1000, nanos |-> (ms % 1000) * 1000000]
as_millis(d) == d.secs * 1000 + d.nanos \div 1000000

INTERVAL_PERIOD_MS == 5000
MAILBOX_CAPACITY == 128
SYNCED_CHECKPOINT_BROADCAST_CHANNEL_CAPACITY == 128
CHECKPOINT_HEADER_DOWNLOAD_CONCURRENCY == 100
CHECKPOINT_CONTENT_DOWNLOAD_CONCURRENCY == 100
TRANSACTION_DOWNLOAD_CONCURRENCY == 100
DISCOVERY_INTERVAL_PERIOD_MS == 5000
TARGET_CONCURRENT_CONNECTIONS == 4
PEERS_TO_QUERY == 1

\* the fields of StateSyncConfig that have a getter
StateSyncConfigs ==
    [interval_period_ms : Options,
     mailbox_capacity : Options,
     synced_checkpoint_broadcast_channel_capacity : Options,
     checkpoint_header_download_concurrency : Options,
     checkpoint_content_download_concurrency : Options,
     transaction_download_concurrency : Options]

\* the fields of DiscoveryConfig that have a getter
DiscoveryConfigs ==
    [interval_period_ms : Options,
     target_concurrent_connections : Options,
     peers_to_query : Options]

\* #[derive(Default)]: every field is None
StateSyncDefault ==
    [interval_period_ms |-> NoneOpt,
     mailbox_capacity |-> NoneOpt,
     synced_checkpoint_broadcast_channel_capacity |-> NoneOpt,
     checkpoint_header_download_concurrency |-> NoneOpt,
     checkpoint_content_download_concurrency |-> NoneOpt,
     transaction_download_concurrency |-> NoneOpt]

DiscoveryDefault ==
    [interval_period_ms |-> NoneOpt,
     target_concurrent_connections |-> NoneOpt,
     peers_to_query |-> NoneOpt]

StateSync_interval_period(c) ==
    from_millis(unwrap_or(c.interval_period_ms, INTERVAL_PERIOD_MS))

StateSync_mailbox_capacity(c) == unwrap_or(c.mailbox_capacity, MAILBOX_CAPACITY)

StateSync_synced_checkpoint_broadcast_channel_capacity(c) ==
    unwrap_or(c.synced_checkpoint_broadcast_channel_capacity,
              SYNCED_CHECKPOINT_BROADCAST_CHANNEL_CAPACITY)

StateSync_checkpoint_header_download_concurrency(c) ==
    unwrap_or(c.checkpoint_header_download_concurrency,
              CHECKPOINT_HEADER_DOWNLOAD_CONCURRENCY)

\* mutant: the content getter reads the header field
StateSync_checkpoint_content_download_concurrency_Header(c) ==
    unwrap_or(c.checkpoint_header_download_concurrency,
              CHECKPOINT_CONTENT_DOWNLOAD_CONCURRENCY)

StateSync_checkpoint_content_download_concurrency(c) ==
    unwrap_or(c.checkpoint_content_download_concurrency,
              CHECKPOINT_CONTENT_DOWNLOAD_CONCURRENCY)

StateSync_transaction_download_concurrency(c) ==
    unwrap_or(c.transaction_download_concurrency, TRANSACTION_DOWNLOAD_CONCURRENCY)

Discovery_interval_period(c) ==
    from_millis(unwrap_or(c.interval_period_ms, DISCOVERY_INTERVAL_PERIOD_MS))

Discovery_target_concurrent_connections(c) ==
    unwrap_or(c.target_concurrent_connections, TARGET_CONCURRENT_CONNECTIONS)

Discovery_peers_to_query(c) == unwrap_or(c.peers_to_query, PEERS_TO_QUERY)

StateSyncUnresolved ==
    [resolved |-> FALSE,
     interval_period |-> from_millis(0),
     mailbox_capacity |-> 0,
     synced_checkpoint_broadcast_channel_capacity |-> 0,
     checkpoint_header_download_concurrency |-> 0,
     checkpoint_content_download_concurrency |-> 0,
     transaction_download_concurrency |-> 0]

DiscoveryUnresolved ==
    [resolved |-> FALSE,
     interval_period |-> from_millis(0),
     target_concurrent_connections |-> 0,
     peers_to_query |-> 0]

\* every getter of impl StateSyncConfig is called on cfg.state_sync
ResolveStateSync ==
    /\ ~gotStateSync.resolved
    /\ LET c == cfg.state_sync
       IN gotStateSync' =
            [resolved |-> TRUE,
             interval_period |-> StateSync_interval_period(c),
             mailbox_capacity |-> StateSync_mailbox_capacity(c),
             synced_checkpoint_broadcast_channel_capacity |->
                 StateSync_synced_checkpoint_broadcast_channel_capacity(c),
             checkpoint_header_download_concurrency |->
                 StateSync_checkpoint_header_download_concurrency(c),
             checkpoint_content_download_concurrency |->
                 StateSync_checkpoint_content_download_concurrency(c),
             transaction_download_concurrency |->
                 StateSync_transaction_download_concurrency(c)]
    /\ UNCHANGED <<cfg, gotDiscovery>>

\* every getter of impl DiscoveryConfig is called on cfg.discovery
ResolveDiscovery ==
    /\ ~gotDiscovery.resolved
    /\ LET c == cfg.discovery
       IN gotDiscovery' =
            [resolved |-> TRUE,
             interval_period |-> Discovery_interval_period(c),
             target_concurrent_connections |->
                 Discovery_target_concurrent_connections(c),
             peers_to_query |-> Discovery_peers_to_query(c)]
    /\ UNCHANGED <<cfg, gotStateSync>>

\* ------------------------------------------------------------ specification
P2pIdle ==
    /\ cfg = [state_sync |-> StateSyncDefault, discovery |-> DiscoveryDefault]
    /\ gotStateSync = StateSyncUnresolved
    /\ gotDiscovery = DiscoveryUnresolved

Init == MainInit /\ P2pIdle

Next ==
    \/ (MainCallSetup /\ UNCHANGED p2pVars)
    \/ (EnvResourcesReady /\ UNCHANGED p2pVars)
    \/ (EnvSetupErr /\ UNCHANGED p2pVars)
    \/ (EnvSetupOk /\ UNCHANGED p2pVars)
    \/ (EnvBarrierWait /\ UNCHANGED p2pVars)
    \/ (EnvBarrierPass /\ UNCHANGED p2pVars)
    \/ (MainSetupReturn /\ UNCHANGED p2pVars)
    \/ (MainBarrierWait /\ UNCHANGED p2pVars)
    \/ (MainBarrierPass /\ UNCHANGED p2pVars)
    \/ (MainBuildRuntime /\ UNCHANGED p2pVars)
    \/ (MainSpawn /\ UNCHANGED p2pVars)
    \/ (ClientConfigure /\ UNCHANGED p2pVars)
    \/ (ClientRun /\ UNCHANGED p2pVars)
    \/ (ClientRunReturn /\ UNCHANGED p2pVars)
    \/ (MainJoin /\ UNCHANGED p2pVars)
    \/ (MainReport /\ UNCHANGED p2pVars)
    \/ (MainCompare /\ UNCHANGED p2pVars)
    \/ (MainPersist /\ UNCHANGED p2pVars)

Spec == Init /\ [][Next]_vars

\* the configuration getters, applied to every configuration within the bounds
MainIdle ==
    /\ opts = [local |-> TRUE, disjoint_mode |-> FALSE, run_duration |-> Unbounded,
               stress_stat_collection |-> FALSE, compare_with |-> "",
               benchmark_stats_path |-> ""]
    /\ fs = [p \in Paths |-> NoFile]
    /\ MainStart

InitP2p ==
    /\ MainIdle
    /\ cfg \in [state_sync : StateSyncConfigs, discovery : DiscoveryConfigs]
    /\ gotStateSync = StateSyncUnresolved
    /\ gotDiscovery = DiscoveryUnresolved

NextP2p ==
    \/ (ResolveStateSync /\ UNCHANGED mainVars)
    \/ (ResolveDiscovery /\ UNCHANGED mainVars)

SpecP2p == InitP2p /\ [][NextP2p]_vars

\* ------------------------------------------------------------- properties
PreBarrier == {"start", "setup", "barrier", "barrier_wait"}
Both == {"main", "env"}

ReportPrinted ==
    /\ Len(stderr) >= 2
    /\ stderr[1] = <<"header", "Benchmark Report:">>
    /\ stderr[2] = to_table(returned.benchmark)

ConfigureFailed == clientResult.kind = "err" /\ clientResult.from = "configure"

\* C1: workload configuration and BenchDriver::run start only after the
\* 2-party barrier has released: whenever the client thread exists, the
\* workloads are configured or the driver has been started, both main and the
\* participant holding the cloned barrier have arrived and main is past its wait.
C1_NoTrafficBeforeRendezvous ==
    (clientPc # "none" \/ runCalls > 0 \/ workload_configuration # None)
        => /\ arrivedSet = Both
           /\ barrier.generation >= 1
           /\ pc \notin PreBarrier

C1_Witness == clientPc = "running" /\ runCalls = 1 /\ arrivedSet = Both

\* C2: the show_progress flag handed to run is true exactly when the run
\* duration is unbounded, a bounded duration gives false, and the interval
\* handed to run is the configured run duration.
C2_ShowProgressIffUnbounded ==
    runCalls > 0
        => /\ runArgs.show_progress <=> (opts.run_duration = Unbounded)
           /\ opts.run_duration.kind = "bounded" => ~runArgs.show_progress
           /\ runArgs.interval = opts.run_duration

C2_Witness ==
    /\ runCalls > 0
    /\ opts.run_duration = Bounded(1)
    /\ runArgs = [show_progress |-> FALSE, interval |-> Bounded(1)]

\* C3 as stated: when configure returns an error, main has not yet completed
\* its barrier wait.
C3_ConfigErrorBeforeRendezvous == ConfigureFailed => pc \in PreBarrier

\* C3 amended: when configure returns an error, main has already completed its
\* barrier wait with both participants arrived, the driver is never started,
\* nothing is reported, and main ends by panicking on the unwrap of the error.
C3_ConfigErrorAfterRendezvousBeforeRun ==
    ConfigureFailed
        => /\ pc \notin PreBarrier
           /\ arrivedSet = Both
           /\ runCalls = 0
           /\ stderr = <<>>
           /\ writeCalls = 0
           /\ pc = "done" => outcome = "panic_unwrap"

C3_Witness == ConfigureFailed /\ pc = "done" /\ outcome = "panic_unwrap"

\* C4: a client thread that ended abnormally makes main return the join error,
\* an error returned inside a joined thread makes main panic on unwrap; the two
\* outcomes are never the same, neither is a success, and no report is written.
C4_JoinErrorDistinctFromWorkloadError ==
    (pc = "done" /\ clientPc = "joined")
        => /\ (clientResult.kind = "panicked") <=> (outcome = "err_join")
           /\ (clientResult.kind = "err") <=> (outcome = "panic_unwrap")
           /\ clientResult.kind \in {"panicked", "err"}
                => (stderr = <<>> /\ outcome # "ok" /\ writeCalls = 0)

C4_Witness ==
    /\ pc = "done"
    /\ clientResult = [kind |-> "err", from |-> "run"]
    /\ outcome = "panic_unwrap"

\* C5: once the client thread has joined with stats and main has moved on, the
\* benchmark report is on stderr; it is there before the compare file is read,
\* before anything is written, and in every run whose comparison step failed.
C5_ReportBeforeCompare ==
    /\ (clientResult.kind = "ok" /\ pc \in {"compare", "persist", "done"})
          => ReportPrinted
    /\ compareRead => ReportPrinted
    /\ writeCalls > 0 => ReportPrinted
    /\ outcome \in {"err_compare_read", "err_compare_parse"} => ReportPrinted

C5_Witness == outcome = "err_compare_parse" /\ ReportPrinted

\* C6: when env.setup returns an error, main returns it without arriving at
\* the barrier, without spawning the client thread and without configuring or
\* running a workload.
C6_SetupErrorAbortsBeforeTraffic ==
    setupResult = "err"
        => /\ mainArrivals = 0
           /\ "main" \notin arrivedSet
           /\ pc \in {"setup", "done"}
           /\ pc = "done" => outcome = "err_setup"
           /\ clientPc = "none"
           /\ workload_configuration = None
           /\ runCalls = 0

C6_Witness == setupResult = "err" /\ pc = "done" /\ outcome = "err_setup"

\* C7: the barrier is for two participants; main arrives at most once, only
\* after env.setup returned Ok with the resources ready; neither side is past
\* its wait before both have arrived; and after main has passed, the barrier
\* stays as the single release left it.
C7_OneShotBarrier ==
    /\ BarrierN = 2
    /\ mainArrivals <= 1
    /\ mainArrivals = 1 <=> "main" \in arrivedSet
    /\ "main" \in arrivedSet => (setupResult = "ok" /\ resources)
    /\ "env" \in arrivedSet => resources
    /\ (pc \notin PreBarrier /\ outcome # "err_setup")
          => (arrivedSet = Both /\ mainArrivals = 1)
    /\ envPc = "passed" => arrivedSet = Both
    /\ clientPc # "none" => barrier = [arrived |-> 0, generation |-> 1]

C7_Witness ==
    /\ pc = "join"
    /\ envPc = "passed"
    /\ mainArrivals = 1
    /\ barrier = [arrived |-> 0, generation |-> 1]

\* C8: with a field absent a getter returns the documented default (5000 ms,
\* 128, 128, 100, 100, 100; 5000 ms, 4, 1), with the field present it returns
\* the configured value, whatever the other fields hold.
C8_ConfigDefaults ==
    /\ gotStateSync.resolved =>
         LET c == cfg.state_sync
             g == gotStateSync
             Expect(f, d) == IF f.some THEN f.val ELSE d
         IN /\ as_millis(g.interval_period) = Expect(c.interval_period_ms, 5000)
            /\ g.mailbox_capacity = Expect(c.mailbox_capacity, 128)
            /\ g.synced_checkpoint_broadcast_channel_capacity =
                 Expect(c.synced_checkpoint_broadcast_channel_capacity, 128)
            /\ g.checkpoint_header_download_concurrency =
                 Expect(c.checkpoint_header_download_concurrency, 100)
            /\ g.checkpoint_content_download_concurrency =
                 Expect(c.checkpoint_content_download_concurrency, 100)
            /\ g.transaction_download_concurrency =
                 Expect(c.transaction_download_concurrency, 100)
            /\ c.interval_period_ms = NoneOpt =>
                 g.interval_period = [secs |-> 5, nanos |-> 0]
    /\ gotDiscovery.resolved =>
         LET c == cfg.discovery
             g == gotDiscovery
             Expect(f, d) == IF f.some THEN f.val ELSE d
         IN /\ as_millis(g.interval_period) = Expect(c.interval_period_ms, 5000)
            /\ g.target_concurrent_connections =
                 Expect(c.target_concurrent_connections, 4)
            /\ g.peers_to_query = Expect(c.peers_to_query, 1)
            /\ c.interval_period_ms = NoneOpt =>
                 g.interval_period = [secs |-> 5, nanos |-> 0]

C8_Witness ==
    /\ cfg = [state_sync |-> StateSyncDefault, discovery |-> DiscoveryDefault]
    /\ gotStateSync.resolved
    /\ gotStateSync.mailbox_capacity = 128
    /\ gotDiscovery.resolved
    /\ gotDiscovery.target_concurrent_connections = 4

\* C9: run is invoked at most once; what main reports, compares and persists
\* is the value the driver returned: the locals equal it from the join on, the
\* table on stderr is its table, the comparison leaves it and the previous
\* stats as read, and a successfully written stats file holds its serialization.
C9_StatsGeneratedOnceAndImmutable ==
    /\ runCalls <= 1
    /\ (clientResult.kind = "ok" /\ pc \in {"report", "compare", "persist", "done"})
          => /\ benchmark_stats = returned.benchmark
             /\ stress_stats = returned.stress
             /\ returned.benchmark \in StatsVals
    /\ Len(stderr) >= 2 => stderr[2] = to_table(returned.benchmark)
    /\ (pc = "persist" /\ compareRead)
          => /\ prev_stats = from_str(fs[opts.compare_with]).val
             /\ stderr[Len(stderr)] =
                  cmp_to_table(returned.benchmark, prev_stats)
    /\ (pc = "done" /\ outcome = "ok" /\ opts.benchmark_stats_path # "")
          => fs[opts.benchmark_stats_path] = to_string(returned.benchmark)

C9_Witness ==
    /\ pc = "done"
    /\ outcome = "ok"
    /\ opts.benchmark_stats_path = "curr.json"
    /\ compareRead
    /\ fs["curr.json"] = to_string(returned.benchmark)
    /\ returned.stress # returned.benchmark

\* C10: with both paths set, the stats file is written only after the compare
\* file was read and parsed; a compare file that cannot be read or parsed ends
\* main with that error and nothing is ever written; with --compare-with empty
\* and a stats path set, a run that returned stats always reaches the write,
\* and a main that ends Ok has left the new stats in the file.
C10_PersistAfterCompare ==
    /\ (writeCalls > 0 /\ opts.compare_with # "")
          => (compareRead /\ prev_stats \in StatsVals)
    /\ outcome \in {"err_compare_read", "err_compare_parse"}
          => (pc = "done" /\ writeCalls = 0)
    /\ (compareRead /\ prev_stats = NoStats)
          => (pc = "done" /\ writeCalls = 0
              /\ outcome \in {"err_compare_read", "err_compare_parse"})
    /\ (pc = "done" /\ clientResult.kind = "ok" /\ opts.compare_with = ""
        /\ opts.benchmark_stats_path # "")
          => /\ writeCalls = 1
             /\ outcome = "ok"
                  => fs[opts.benchmark_stats_path] = to_string(returned.benchmark)

C10_Witness ==
    /\ outcome = "err_compare_read"
    /\ opts.benchmark_stats_path # ""
    /\ writeCalls = 0
    /\ pc = "done"

====
